---- MODULE Spec2Model ----
(***************************************************************************)
(* The TimerProvider of src/src/store/TimerContext.tsx as a state machine: *)
(* the in-memory timer and history lists, the list the handlers' closures  *)
(* see (the last committed render), the wall clock, localStorage and the   *)
(* remote timers/week_history tables.                                      *)
(***************************************************************************)
EXTENDS Integers, Sequences, FiniteSets, TLC

VARIABLES
    user,       \* TRUE when useAuth() gives a signed-in identity
    pending,    \* the answer of the remote read of timers issued at sign-in
                \* and not yet handled; Undefined when none is in flight
    timers,     \* useState<Timer[]>: the committed in-memory list
    history,    \* useState<WeekHistory[]>
    rendered,   \* the `timers` value of the last render (what closures read)
    now,        \* Date.now(), in ms
    stored,     \* localStorage: [timers |-> ..., history |-> ...]
    remote,     \* the remote `timers` table, rows in insertion order
    remoteHistory, \* the remote `week_history` table
    uuids,      \* how many ids crypto.randomUUID() has handed out: [timer, week]
    last,       \* the most recent operation: [op, id, ok, hit], hit the ids of
                \* the timers it changed
    ops,        \* how many calls of the Action API and loads have run
    faults,     \* how many remote reads and writes have failed
    reported    \* how many failures the provider has handed to a console or
                \* other sink: no statement of the provider does so

vars == <<user, pending, timers, history, rendered, now, stored, remote, remoteHistory, uuids, last, ops,
         faults, reported>>

----------------------------------------------------------------------------
(* Bounds of the model *)

MsPerSec == 1000
\* the clock moves in half seconds, so that sub-second remainders occur
StepMs == MsPerSec \div 2
MaxClockSteps == 4
StartMs == MsPerSec
MaxNow == StartMs + MaxClockSteps * StepMs
\* ids handed out by crypto.randomUUID(), in order; never reused
TimerIds == <<"t1", "t2">>
WeekIds == <<"w1", "w2">>
\* addTimer's inputs (the Dashboard form)
AddInputs ==
    { [type |-> "goal", title |-> "Work", totalSeconds |-> 2, elapsedSeconds |-> 0,
       color |-> "red", size |-> "small"],
      [type |-> "stopwatch", title |-> "Read", totalSeconds |-> 0, elapsedSeconds |-> 0,
       color |-> "red", size |-> "small"] }
\* deductTime's inputs (positive seconds)
DeductInputs == {1, 3}
\* deductTime is not offered beyond this many logged seconds (a Stopwatch's
\* elapsedSeconds has no upper bound)
MaxElapsed == 3
\* a run holds at most this many calls of the Action API and loads
MaxOps == 4
\* ... and at most this many remote reads and writes that fail
MaxFaults == 1
\* updateTimer's inputs: Partial<Timer>
UpdateInputs ==
    { [title |-> "Gym"],
      [totalSeconds |-> 3, remainingSeconds |-> 3],
      [totalSeconds |-> 1],
      [isRunning |-> TRUE] }

----------------------------------------------------------------------------
(* Values *)

\* an optional number: <<>> is undefined/null, <<v>> is the number v
Undefined == <<>>
Some(v) == <<v>>
\* JavaScript truthiness of an optional number
Truthy(x) == x # Undefined /\ x[1] # 0
\* x || 0 on a number
OrZero(x) == IF x = 0 THEN 0 ELSE x
Max(a, b) == IF a >= b THEN a ELSE b

SeqMap(F(_), s) == [i \in 1..Len(s) |-> F(s[i])]
SeqFilter(P(_), s) == SelectSeq(s, P)
HasId(s, id) == \E i \in 1..Len(s) : s[i].id = id
Find(s, id) == s[CHOOSE i \in 1..Len(s) : s[i].id = id /\ \A j \in 1..(i-1) : s[j].id # id]

----------------------------------------------------------------------------
(* The tick and the catch-up *)

\* a tick that stamps the timer with the clock instead of advancing lastTickAt
\* by the whole seconds it consumed
TickTimerStampsNow(timer, nowMs) ==
    IF timer.isRunning /\ Truthy(timer.lastTickAt)
    THEN LET deltaMs == nowMs - timer.lastTickAt[1] IN
         IF deltaMs >= MsPerSec
         THEN LET secondsPassed == deltaMs \div MsPerSec IN
              IF timer.type = "stopwatch"
              THEN [timer EXCEPT !.elapsedSeconds = OrZero(@) + secondsPassed,
                                 !.lastTickAt = Some(nowMs)]
              ELSE LET newRemaining == timer.remainingSeconds - secondsPassed IN
                   IF newRemaining <= 0
                   THEN [timer EXCEPT !.remainingSeconds = 0, !.isRunning = FALSE,
                                      !.lastTickAt = Undefined]
                   ELSE [timer EXCEPT !.remainingSeconds = newRemaining,
                                      !.lastTickAt = Some(nowMs)]
         ELSE timer
    ELSE timer

\* a tick that counts a started second as a whole one
TickTimerRoundsUp(timer, nowMs) ==
    IF timer.isRunning /\ Truthy(timer.lastTickAt)
    THEN LET deltaMs == nowMs - timer.lastTickAt[1] IN
         IF deltaMs > 0
         THEN LET secondsPassed == (deltaMs + MsPerSec - 1) \div MsPerSec IN
              IF timer.type = "stopwatch"
              THEN [timer EXCEPT !.elapsedSeconds = OrZero(@) + secondsPassed,
                                 !.lastTickAt = Some(@[1] + secondsPassed * MsPerSec)]
              ELSE LET newRemaining == timer.remainingSeconds - secondsPassed IN
                   IF newRemaining <= 0
                   THEN [timer EXCEPT !.remainingSeconds = 0, !.isRunning = FALSE,
                                      !.lastTickAt = Undefined]
                   ELSE [timer EXCEPT !.remainingSeconds = newRemaining,
                                      !.lastTickAt = Some(@[1] + secondsPassed * MsPerSec)]
         ELSE timer
    ELSE timer

\* a tick that stops a Stopwatch once it has credited it two seconds or more
TickTimerEndsStopwatch(timer, nowMs) ==
    IF timer.isRunning /\ Truthy(timer.lastTickAt)
    THEN LET deltaMs == nowMs - timer.lastTickAt[1] IN
         IF deltaMs >= MsPerSec
         THEN LET secondsPassed == deltaMs \div MsPerSec IN
              IF timer.type = "stopwatch"
              THEN IF OrZero(timer.elapsedSeconds) + secondsPassed >= 2
                   THEN [timer EXCEPT !.elapsedSeconds = OrZero(@) + secondsPassed,
                                      !.isRunning = FALSE, !.lastTickAt = Undefined]
                   ELSE [timer EXCEPT !.elapsedSeconds = OrZero(@) + secondsPassed,
                                      !.lastTickAt = Some(@[1] + secondsPassed * MsPerSec)]
              ELSE LET newRemaining == timer.remainingSeconds - secondsPassed IN
                   IF newRemaining <= 0
                   THEN [timer EXCEPT !.remainingSeconds = 0, !.isRunning = FALSE,
                                      !.lastTickAt = Undefined]
                   ELSE [timer EXCEPT !.remainingSeconds = newRemaining,
                                      !.lastTickAt = Some(@[1] + secondsPassed * MsPerSec)]
         ELSE timer
    ELSE timer

\* a tick that leaves a Goal it has brought to 0 running
TickTimerKeepsRunning(timer, nowMs) ==
    IF timer.isRunning /\ Truthy(timer.lastTickAt)
    THEN LET deltaMs == nowMs - timer.lastTickAt[1] IN
         IF deltaMs >= MsPerSec
         THEN LET secondsPassed == deltaMs \div MsPerSec IN
              IF timer.type = "stopwatch"
              THEN [timer EXCEPT !.elapsedSeconds = OrZero(@) + secondsPassed,
                                 !.lastTickAt = Some(@[1] + secondsPassed * MsPerSec)]
              ELSE LET newRemaining == timer.remainingSeconds - secondsPassed IN
                   IF newRemaining <= 0
                   THEN [timer EXCEPT !.remainingSeconds = 0,
                                      !.lastTickAt = Some(@[1] + secondsPassed * MsPerSec)]
                   ELSE [timer EXCEPT !.remainingSeconds = newRemaining,
                                      !.lastTickAt = Some(@[1] + secondsPassed * MsPerSec)]
         ELSE timer
    ELSE timer

\* The interval callback's update of one timer
TickTimer(timer, nowMs) ==
    IF timer.isRunning /\ Truthy(timer.lastTickAt)
    THEN LET deltaMs == nowMs - timer.lastTickAt[1] IN
         IF deltaMs >= MsPerSec
         THEN LET secondsPassed == deltaMs \div MsPerSec IN
              IF timer.type = "stopwatch"
              THEN [timer EXCEPT !.elapsedSeconds = OrZero(@) + secondsPassed,
                                 !.lastTickAt = Some(@[1] + secondsPassed * MsPerSec)]
              ELSE LET newRemaining == timer.remainingSeconds - secondsPassed IN
                   IF newRemaining <= 0
                   THEN [timer EXCEPT !.remainingSeconds = 0, !.isRunning = FALSE,
                                      !.lastTickAt = Undefined]
                   ELSE [timer EXCEPT !.remainingSeconds = newRemaining,
                                      !.lastTickAt = Some(@[1] + secondsPassed * MsPerSec)]
         ELSE timer
    ELSE timer

TickAll(currentTimers, nowMs) ==
    IF ~ \E i \in 1..Len(currentTimers) : currentTimers[i].isRunning
    THEN currentTimers
    ELSE [i \in 1..Len(currentTimers) |-> TickTimer(currentTimers[i], nowMs)]

\* a catch-up that leaves a Goal it has brought to 0 running
CatchUpKeepsRunning(t, nowMs) ==
    IF t.isRunning /\ Truthy(t.lastTickAt)
    THEN LET deltaMs == nowMs - t.lastTickAt[1] IN
         IF deltaMs > 0
         THEN LET secondsPassed == deltaMs \div MsPerSec IN
              IF t.type = "stopwatch"
              THEN [t EXCEPT !.elapsedSeconds = OrZero(@) + secondsPassed,
                             !.lastTickAt = Some(@[1] + secondsPassed * MsPerSec)]
              ELSE [t EXCEPT !.remainingSeconds = Max(0, @ - secondsPassed),
                             !.lastTickAt = Some(@[1] + secondsPassed * MsPerSec)]
         ELSE t
    ELSE t

\* a catch-up that counts the seconds but leaves lastTickAt where it was
CatchUpKeepsLastTick(t, nowMs) ==
    IF t.isRunning /\ Truthy(t.lastTickAt)
    THEN LET deltaMs == nowMs - t.lastTickAt[1] IN
         IF deltaMs > 0
         THEN LET secondsPassed == deltaMs \div MsPerSec IN
              IF t.type = "stopwatch"
              THEN [t EXCEPT !.elapsedSeconds = OrZero(@) + secondsPassed]
              ELSE LET newRemaining == Max(0, t.remainingSeconds - secondsPassed)
                       isFinished == newRemaining <= 0 IN
                   [t EXCEPT !.remainingSeconds = newRemaining,
                             !.lastTickAt = IF isFinished THEN Undefined ELSE @,
                             !.isRunning = ~isFinished]
         ELSE t
    ELSE t

\* a catch-up that also runs when the clock is behind lastTickAt
CatchUpBackwards(t, nowMs) ==
    IF t.isRunning /\ Truthy(t.lastTickAt)
    THEN LET deltaMs == nowMs - t.lastTickAt[1] IN
         IF deltaMs # 0
         THEN LET secondsPassed == deltaMs \div MsPerSec IN
              IF t.type = "stopwatch"
              THEN [t EXCEPT !.elapsedSeconds = OrZero(@) + secondsPassed,
                             !.lastTickAt = Some(@[1] + secondsPassed * MsPerSec)]
              ELSE LET newRemaining == Max(0, t.remainingSeconds - secondsPassed)
                       isFinished == newRemaining <= 0 IN
                   [t EXCEPT !.remainingSeconds = newRemaining,
                             !.lastTickAt = IF isFinished THEN Undefined
                                            ELSE Some(@[1] + secondsPassed * MsPerSec),
                             !.isRunning = ~isFinished]
         ELSE t
    ELSE t

\* a catch-up that counts the distance between the clock and lastTickAt,
\* whichever of the two is ahead
CatchUpAbsolute(t, nowMs) ==
    IF t.isRunning /\ Truthy(t.lastTickAt)
    THEN LET deltaMs == IF nowMs >= t.lastTickAt[1] THEN nowMs - t.lastTickAt[1]
                        ELSE t.lastTickAt[1] - nowMs IN
         IF deltaMs > 0
         THEN LET secondsPassed == deltaMs \div MsPerSec IN
              IF t.type = "stopwatch"
              THEN [t EXCEPT !.elapsedSeconds = OrZero(@) + secondsPassed,
                             !.lastTickAt = Some(@[1] + secondsPassed * MsPerSec)]
              ELSE LET newRemaining == Max(0, t.remainingSeconds - secondsPassed)
                       isFinished == newRemaining <= 0 IN
                   [t EXCEPT !.remainingSeconds = newRemaining,
                             !.lastTickAt = IF isFinished THEN Undefined
                                            ELSE Some(@[1] + secondsPassed * MsPerSec),
                             !.isRunning = ~isFinished]
         ELSE t
    ELSE t

\* The load-time catch-up of one timer
CatchUp(t, nowMs) ==
    IF t.isRunning /\ Truthy(t.lastTickAt)
    THEN LET deltaMs == nowMs - t.lastTickAt[1] IN
         IF deltaMs > 0
         THEN LET secondsPassed == deltaMs \div MsPerSec IN
              IF t.type = "stopwatch"
              THEN [t EXCEPT !.elapsedSeconds = OrZero(@) + secondsPassed,
                             !.lastTickAt = Some(@[1] + secondsPassed * MsPerSec)]
              ELSE LET newRemaining == Max(0, t.remainingSeconds - secondsPassed)
                       isFinished == newRemaining <= 0 IN
                   [t EXCEPT !.remainingSeconds = newRemaining,
                             !.lastTickAt = IF isFinished THEN Undefined
                                            ELSE Some(@[1] + secondsPassed * MsPerSec),
                             !.isRunning = ~isFinished]
         ELSE t
    ELSE t

CatchUpAll(loaded, nowMs) == [i \in 1..Len(loaded) |-> CatchUp(loaded[i], nowMs)]

----------------------------------------------------------------------------
(* The storage boundary *)

\* JSON.stringify drops a key whose value is undefined; JSON.parse gives the
\* object without it, and reading the missing key gives undefined again
Stringify(t) ==
    IF t.lastTickAt = Undefined
    THEN [f \in DOMAIN t \ {"lastTickAt"} |-> t[f]]
    ELSE t
Parse(p) ==
    [f \in DOMAIN p \cup {"lastTickAt"} |->
        IF f \in DOMAIN p THEN p[f] ELSE Undefined]
Persist(ts, hs) == [timers |-> SeqMap(Stringify, ts), history |-> hs]

UserId == "u"

\* the row addTimer inserts (last_tick_at is not given: the column's null)
InsertRow(timer) ==
    [id |-> timer.id, user_id |-> UserId, title |-> timer.title, type |-> timer.type,
     total_seconds |-> timer.totalSeconds, remaining_seconds |-> timer.remainingSeconds,
     elapsed_seconds |-> timer.elapsedSeconds, is_running |-> timer.isRunning,
     last_tick_at |-> Undefined, color |-> timer.color, size |-> timer.size]

\* fetchRemote's mapping of a row to a Timer
MapRow(d) ==
    [id |-> d.id, title |-> d.title, type |-> d.type, totalSeconds |-> d.total_seconds,
     remainingSeconds |-> d.remaining_seconds, elapsedSeconds |-> d.elapsed_seconds,
     isRunning |-> d.is_running,
     lastTickAt |-> IF Truthy(d.last_tick_at) THEN Some(d.last_tick_at[1]) ELSE Undefined,
     color |-> d.color, size |-> d.size]

\* value || null
OrNull(x) == IF Truthy(x) THEN x ELSE Undefined

\* supabase .update(fields).eq('id', id): the fields given overwrite the row's
Patch(rows, id, fields) ==
    [i \in 1..Len(rows) |->
        IF rows[i].id = id
        THEN [f \in DOMAIN rows[i] |-> IF f \in DOMAIN fields THEN fields[f] ELSE rows[i][f]]
        ELSE rows[i]]

\* updateTimer's dbUpdates; a key whose value is undefined is not sent
Camel(k) ==
    CASE k = "total_seconds" -> "totalSeconds"
      [] k = "remaining_seconds" -> "remainingSeconds"
      [] OTHER -> k
DbKeys(updates) ==
    ({"title", "color", "size"} \cap DOMAIN updates)
    \cup (IF "totalSeconds" \in DOMAIN updates
          THEN {"total_seconds"}
               \cup (IF "remainingSeconds" \in DOMAIN updates
                     THEN {"remaining_seconds"} ELSE {})
          ELSE {})
DbUpdates(updates) == [k \in DbKeys(updates) |-> updates[Camel(k)]]

\* the orders in which a select without ORDER BY may return the rows
Orders(rows) ==
    { p \in [1..Len(rows) -> 1..Len(rows)] : \A i, j \in 1..Len(rows) : p[i] = p[j] => i = j }
Reorder(rows, p) == [i \in 1..Len(rows) |-> rows[p[i]]]

----------------------------------------------------------------------------
(* The state after the provider has mounted on a device with nothing stored *)

Mounted(u) ==
    /\ user = u
    /\ pending = <<>>
    /\ timers = <<>>
    /\ history = <<>>
    /\ rendered = <<>>
    /\ now = StartMs
    /\ stored = Persist(<<>>, <<>>)
    /\ remote = <<>>
    /\ remoteHistory = <<>>
    /\ uuids = [timer |-> 0, week |-> 0]
    /\ last = [op |-> "mount", id |-> "-", ok |-> FALSE, hit |-> {}]
    /\ ops = 0
    /\ faults = 0
    /\ reported = 0

\* signed in: remote-synced mode
Init == Mounted(TRUE)
\* no identity: local-only mode
InitLocal == Mounted(FALSE)

\* one more call of the Action API (or load) in this run
Called == ops < MaxOps /\ ops' = ops + 1
\* n of the remote calls of this step fail
Failed(n) == faults + n <= MaxFaults /\ faults' = faults + n
Bit(b) == IF b THEN 1 ELSE 0

\* the ids of the timers of `new` that `old` does not hold as they are
Changed(old, new) ==
    {new[i].id : i \in {j \in 1..Len(new) : \A k \in 1..Len(old) : old[k] # new[j]}}

\* the commit that follows a state change made in an event handler: the
\* closures see the new list, and without a user the persistence effects
\* write both lists to localStorage
Commit(ts, hs) ==
    /\ timers' = ts
    /\ history' = hs
    /\ rendered' = ts
    /\ stored' = IF user THEN stored ELSE Persist(ts, hs)

Done(op, id, ok, old, new) ==
    last' = [op |-> op, id |-> id, ok |-> ok, hit |-> Changed(old, new)]

----------------------------------------------------------------------------
(* The actions of the Action API; `ok` says whether the remote write succeeds *)

\* a new timer that starts with nothing remaining
NewTimerNothingRemaining(newTimer, id) ==
    [id |-> id, type |-> newTimer.type, title |-> newTimer.title,
     totalSeconds |-> newTimer.totalSeconds, remainingSeconds |-> 0,
     elapsedSeconds |-> 0, isRunning |-> FALSE, lastTickAt |-> Undefined,
     color |-> newTimer.color, size |-> newTimer.size]

\* addTimer's timer
NewTimer(newTimer, id) ==
    [id |-> id, type |-> newTimer.type, title |-> newTimer.title,
     totalSeconds |-> newTimer.totalSeconds, remainingSeconds |-> newTimer.totalSeconds,
     elapsedSeconds |-> 0, isRunning |-> FALSE, lastTickAt |-> Undefined,
     color |-> newTimer.color, size |-> newTimer.size]

addTimer(newTimer, ok) ==
    /\ Called
    /\ uuids.timer < Len(TimerIds)
    /\ LET timer == NewTimer(newTimer, TimerIds[uuids.timer + 1]) IN
       /\ Commit(Append(timers, timer), history)
       /\ remote' = IF user /\ ok THEN Append(remote, InsertRow(timer)) ELSE remote
       /\ Done("addTimer", timer.id, user /\ ok, timers, Append(timers, timer))
    /\ uuids' = [uuids EXCEPT !.timer = @ + 1]
    /\ UNCHANGED <<user, pending, reported, now, remoteHistory>>

\* { ...t, ...updates }
Merge(t, updates) == [f \in DOMAIN t |-> IF f \in DOMAIN updates THEN updates[f] ELSE t[f]]

UpdateOne(prev, id, updates) ==
    [i \in 1..Len(prev) |-> IF prev[i].id = id THEN Merge(prev[i], updates) ELSE prev[i]]

updateTimer(id, updates, ok) ==
    /\ Called
    /\ Commit(UpdateOne(timers, id, updates), history)
    /\ remote' = IF user /\ ok /\ DbKeys(updates) # {}
                 THEN Patch(remote, id, DbUpdates(updates))
                 ELSE remote
    /\ Done("updateTimer", id, user /\ ok, timers, UpdateOne(timers, id, updates))
    /\ UNCHANGED <<user, pending, reported, now, remoteHistory, uuids>>

\* a delete that, finding no timer with the id, drops the first one
DeleteOneOrFirst(prev, id) ==
    IF \E i \in 1..Len(prev) : prev[i].id = id
    THEN SelectSeq(prev, LAMBDA t : t.id # id)
    ELSE IF prev = <<>> THEN prev ELSE Tail(prev)

\* prev.filter(t => t.id !== id)
DeleteOne(prev, id) ==
    SelectSeq(prev, LAMBDA t : t.id # id)

deleteTimer(id, ok) ==
    /\ Called
    /\ Commit(DeleteOne(timers, id), history)
    /\ remote' = IF user /\ ok THEN DeleteOne(remote, id) ELSE remote
    /\ Done("deleteTimer", id, user /\ ok, timers, DeleteOne(timers, id))
    /\ UNCHANGED <<user, pending, reported, now, remoteHistory, uuids>>

\* an updater that puts the changed timer at the end of the list
ReplaceAtEnd(prev, id, nextTimer) ==
    SelectSeq(prev, LAMBDA t : t.id # id) \o <<nextTimer>>

Replace(prev, id, nextTimer) ==
    [i \in 1..Len(prev) |-> IF prev[i].id = id THEN nextTimer ELSE prev[i]]

\* toggleTimer's nextTimer, from the timer the closure's list holds
ToggleNext(timer, nowMs) ==
    LET isStarting == ~timer.isRunning IN
    [timer EXCEPT !.isRunning = isStarting,
                  !.lastTickAt = IF isStarting THEN Some(nowMs) ELSE Undefined]

\* the list toggleTimer's updater gives
ToggleList(prev, id, nextTimer) == Replace(prev, id, nextTimer)

\* a toggleTimer that, finding no timer with the id, toggles the first timer
toggleTimerOrFirst(id, ok) ==
    /\ Called
    /\ IF rendered = <<>>
       THEN /\ UNCHANGED <<timers, history, rendered, stored, remote>>
            /\ Done("toggleTimer", id, FALSE, timers, timers)
       ELSE LET found == IF HasId(rendered, id) THEN id ELSE rendered[1].id
                nextTimer == ToggleNext(Find(rendered, found), now) IN
            /\ Commit(ToggleList(timers, found, nextTimer), history)
            /\ remote' = IF user /\ ok
                         THEN Patch(remote, found,
                                [is_running |-> nextTimer.isRunning,
                                 last_tick_at |-> OrNull(nextTimer.lastTickAt),
                                 remaining_seconds |-> nextTimer.remainingSeconds,
                                 elapsed_seconds |-> nextTimer.elapsedSeconds])
                         ELSE remote
            /\ Done("toggleTimer", id, user /\ ok, timers, ToggleList(timers, found, nextTimer))
    /\ UNCHANGED <<user, pending, reported, now, remoteHistory, uuids>>

toggleTimer(id, ok) ==
    /\ Called
    /\ IF ~HasId(rendered, id)
       THEN /\ UNCHANGED <<timers, history, rendered, stored, remote>>
            /\ Done("toggleTimer", id, FALSE, timers, timers)
       ELSE LET nextTimer == ToggleNext(Find(rendered, id), now) IN
            /\ Commit(ToggleList(timers, id, nextTimer), history)
            /\ remote' = IF user /\ ok
                         THEN Patch(remote, id,
                                [is_running |-> nextTimer.isRunning,
                                 last_tick_at |-> OrNull(nextTimer.lastTickAt),
                                 remaining_seconds |-> nextTimer.remainingSeconds,
                                 elapsed_seconds |-> nextTimer.elapsedSeconds])
                         ELSE remote
            /\ Done("toggleTimer", id, user /\ ok, timers, ToggleList(timers, id, nextTimer))
    /\ UNCHANGED <<user, pending, reported, now, remoteHistory, uuids>>

\* deductTime's nextTimer
DeductNext(timer, seconds) ==
    IF timer.type = "stopwatch"
    THEN [timer EXCEPT !.elapsedSeconds = OrZero(@) + seconds]
    ELSE LET newRemaining == Max(0, timer.remainingSeconds - seconds)
             isFinished == newRemaining <= 0 IN
         [timer EXCEPT !.remainingSeconds = newRemaining,
                       !.isRunning = IF isFinished THEN FALSE ELSE @,
                       !.lastTickAt = IF isFinished THEN Undefined ELSE @]

\* a deductTime that puts the list back when its remote write fails
deductTimeRollsBack(id, seconds, ok) ==
    /\ Called
    /\ \A i \in 1..Len(rendered) :
          rendered[i].id = id => rendered[i].elapsedSeconds + seconds <= MaxElapsed
    /\ IF ~HasId(rendered, id)
       THEN /\ UNCHANGED <<timers, history, rendered, stored, remote>>
            /\ Done("deductTime", id, FALSE, timers, timers)
       ELSE LET nextTimer == DeductNext(Find(rendered, id), seconds)
                kept == IF user /\ ~ok THEN timers ELSE Replace(timers, id, nextTimer)
            IN /\ Commit(kept, history)
               /\ remote' = IF user /\ ok
                            THEN Patch(remote, id,
                                   [remaining_seconds |-> nextTimer.remainingSeconds,
                                    elapsed_seconds |-> nextTimer.elapsedSeconds,
                                    is_running |-> nextTimer.isRunning,
                                    last_tick_at |-> OrNull(nextTimer.lastTickAt)])
                            ELSE remote
               /\ Done("deductTime", id, user /\ ok, timers, kept)
    /\ UNCHANGED <<user, pending, reported, now, remoteHistory, uuids>>

deductTime(id, seconds, ok) ==
    /\ Called
    /\ \A i \in 1..Len(rendered) :
          rendered[i].id = id => rendered[i].elapsedSeconds + seconds <= MaxElapsed
    /\ IF ~HasId(rendered, id)
       THEN /\ UNCHANGED <<timers, history, rendered, stored, remote>>
            /\ Done("deductTime", id, FALSE, timers, timers)
       ELSE LET nextTimer == DeductNext(Find(rendered, id), seconds) IN
            /\ Commit(Replace(timers, id, nextTimer), history)
            /\ remote' = IF user /\ ok
                         THEN Patch(remote, id,
                                [remaining_seconds |-> nextTimer.remainingSeconds,
                                 elapsed_seconds |-> nextTimer.elapsedSeconds,
                                 is_running |-> nextTimer.isRunning,
                                 last_tick_at |-> OrNull(nextTimer.lastTickAt)])
                         ELSE remote
            /\ Done("deductTime", id, user /\ ok, timers, Replace(timers, id, nextTimer))
    /\ UNCHANGED <<user, pending, reported, now, remoteHistory, uuids>>

\* new Date().toISOString()
ToISOString(ms) == <<"iso", ms>>

SnapshotItem(t) ==
    [title |-> t.title, type |-> t.type, totalSeconds |-> t.totalSeconds,
     completedSeconds |-> IF t.type = "stopwatch" THEN OrZero(t.elapsedSeconds)
                          ELSE t.totalSeconds - t.remainingSeconds,
     color |-> t.color]

\* a reset that keeps the seconds a stopwatch has counted
ResetTimerKeepsElapsed(t) ==
    [t EXCEPT !.remainingSeconds = t.totalSeconds,
              !.isRunning = FALSE, !.lastTickAt = Undefined]

\* resetWeek's reset of one timer
ResetTimer(t) ==
    [t EXCEPT !.remainingSeconds = t.totalSeconds, !.elapsedSeconds = 0,
              !.isRunning = FALSE, !.lastTickAt = Undefined]

\* the list resetWeek's updater gives
ResetList(prev) == [i \in 1..Len(prev) |-> ResetTimer(prev[i])]

\* a loop of remote resets that ends at the first write that fails
ResetRowsUntilFailure(rows, ts, okIds) ==
    LET bad == {i \in 1..Len(ts) : ts[i].id \notin okIds}
        stop == IF bad = {} THEN Len(ts) + 1
                ELSE CHOOSE i \in bad : \A j \in bad : i <= j
        done == {ts[i].id : i \in 1..(stop - 1)}
    IN [k \in 1..Len(rows) |->
          IF rows[k].id \in done
          THEN [rows[k] EXCEPT !.remaining_seconds = Find(ts, rows[k].id).totalSeconds,
                               !.elapsed_seconds = 0, !.is_running = FALSE,
                               !.last_tick_at = Undefined]
          ELSE rows[k]]

\* the loop `for (const t of timers)` of remote resets; the writes of okIds succeed
RECURSIVE ResetRows(_, _, _)
ResetRows(rows, ts, okIds) ==
    IF ts = <<>> THEN rows
    ELSE LET t == Head(ts)
             next == IF t.id \in okIds
                     THEN Patch(rows, t.id,
                            [remaining_seconds |-> t.totalSeconds, elapsed_seconds |-> 0,
                             is_running |-> FALSE, last_tick_at |-> Undefined])
                     ELSE rows
         IN ResetRows(next, Tail(ts), okIds)

IdsOf(ts) == {ts[i].id : i \in 1..Len(ts)}

\* an archive step that keeps only the week just archived
ArchiveKeepsLatest(prev, snapshot) ==
    <<snapshot>>

\* setHistory(prev => [snapshot, ...prev])
Archive(prev, snapshot) ==
    <<snapshot>> \o prev

resetWeek(okH, okIds) ==
    /\ Called
    /\ uuids.week < Len(WeekIds)
    /\ LET snapshotId == WeekIds[uuids.week + 1]
           weekStart == ToISOString(now)
           snapshotItems == SeqMap(SnapshotItem, rendered)
           snapshot == [id |-> snapshotId, weekStart |-> weekStart,
                        timersSnapshot |-> Some(snapshotItems)]
       IN /\ Commit(ResetList(timers), Archive(history, snapshot))
          /\ remoteHistory' =
                IF user /\ okH
                THEN Append(remoteHistory,
                        [id |-> snapshotId, user_id |-> UserId, week_start |-> weekStart,
                         snapshot_json |-> snapshotItems])
                ELSE remoteHistory
          /\ remote' = IF user THEN ResetRows(remote, rendered, okIds) ELSE remote
    /\ uuids' = [uuids EXCEPT !.week = @ + 1]
    /\ Done("resetWeek", "-", user /\ okH, timers, ResetList(timers))
    /\ UNCHANGED <<user, pending, reported, now>>

----------------------------------------------------------------------------
(* The interval, the render that follows it, and the clock *)

\* a tick that also writes the ticked timers to their remote rows
TickWritesRemote ==
    /\ rendered = timers
    /\ timers' = TickAll(timers, now)
    /\ remote' =
          IF user
          THEN [i \in 1..Len(remote) |->
                  IF HasId(TickAll(timers, now), remote[i].id)
                  THEN LET t == Find(TickAll(timers, now), remote[i].id) IN
                       [remote[i] EXCEPT !.remaining_seconds = t.remainingSeconds,
                                         !.elapsed_seconds = t.elapsedSeconds,
                                         !.is_running = t.isRunning,
                                         !.last_tick_at = OrNull(t.lastTickAt)]
                  ELSE remote[i]]
          ELSE remote
    /\ Done("tick", "-", FALSE, timers, TickAll(timers, now))
    /\ UNCHANGED <<user, pending, reported, history, rendered, now, stored, remoteHistory, uuids,
                   ops, faults>>

\* setInterval's callback; the render it schedules comes later (Render)
Tick ==
    /\ rendered = timers
    /\ timers' = TickAll(timers, now)
    /\ Done("tick", "-", FALSE, timers, TickAll(timers, now))
    /\ UNCHANGED <<user, pending, reported, history, rendered, now, stored, remote, remoteHistory, uuids,
                   ops, faults>>

\* a render after which the persistence effects do not run
RenderWithoutEffects ==
    /\ rendered # timers
    /\ rendered' = timers
    /\ UNCHANGED <<user, pending, reported, timers, history, now, stored, remote, remoteHistory, uuids, last,
                   ops, faults>>

Render ==
    /\ rendered # timers
    /\ rendered' = timers
    /\ stored' = IF user THEN stored ELSE Persist(timers, history)
    /\ UNCHANGED <<user, pending, reported, timers, history, now, remote, remoteHistory, uuids, last,
                   ops, faults>>

ClockAdvance ==
    /\ now < MaxNow
    /\ now' = now + StepMs
    /\ UNCHANGED <<user, pending, reported, timers, history, rendered, stored, remote, remoteHistory, uuids,
                   last, ops, faults>>

----------------------------------------------------------------------------
(* The load effect, run when the page is loaded again *)

\* a week_history row read by its missing key gives undefined
Field(d, k) == IF k \in DOMAIN d THEN Some(d[k]) ELSE Undefined

MapHistoryRow(d) ==
    [id |-> d.id, weekStart |-> d.week_start, timersSnapshot |-> Field(d, "timers_snapshot")]

\* .order('week_start', { ascending: false })
RECURSIVE OrderDesc(_)
OrderDesc(rows) ==
    IF rows = <<>> THEN <<>>
    ELSE LET m == CHOOSE i \in 1..Len(rows) :
                    \A j \in 1..Len(rows) :
                        \/ rows[j].week_start[2] < rows[i].week_start[2]
                        \/ (rows[j].week_start[2] = rows[i].week_start[2] /\ i <= j)
         IN <<rows[m]>> \o OrderDesc([k \in 1..(Len(rows) - 1) |->
                                        IF k < m THEN rows[k] ELSE rows[k + 1]])

\* localStorage items the provider did not write. `Garbled` is a text
\* JSON.parse throws on (a cut-off write); `NotAnArray` is the timers item
\* '{"a":1}', which parses to an object without a map method; `NotHistory`
\* is the history item '[{"a":1}]', which parses to an array of one object
\* that is no WeekHistory.
Garbled == <<[text |-> "{\"id\":"]>>
NotAnArray == <<[text |-> "{\"a\":1}"]>>
NotHistory == <<[a |-> 1]>>

\* the try block of the timers item throws (JSON.parse, or loaded.map)
TimersThrow(item) == item \in {Garbled, NotAnArray}
\* the try block of the history item throws (JSON.parse)
HistoryThrows(item) == item = Garbled

LoadLocal ==
    /\ Called
    /\ ~user
    /\ LET loaded == IF TimersThrow(stored.timers) THEN <<>>
                     ELSE SeqMap(Parse, stored.timers)
           caughtUp == CatchUpAll(loaded, now)
           savedHistory == IF HistoryThrows(stored.history) THEN <<>>
                           ELSE stored.history
       IN /\ Commit(caughtUp, savedHistory)
          /\ Done("load", "-", TRUE, loaded, caughtUp)
    /\ UNCHANGED <<user, pending, reported, now, remote, remoteHistory, uuids>>

fetchRemote(okT, okH, order) ==
    /\ Called
    /\ user
    /\ LET mapped == SeqMap(MapRow, Reorder(remote, order))
           caughtUp == CatchUpAll(mapped, now)
           mappedHistory == SeqMap(MapHistoryRow, OrderDesc(remoteHistory))
       IN /\ Commit(IF okT THEN caughtUp ELSE <<>>, IF okH THEN mappedHistory ELSE <<>>)
          /\ Done("load", "-", okT, mapped, IF okT THEN caughtUp ELSE <<>>)
    /\ UNCHANGED <<user, pending, reported, now, remote, remoteHistory, uuids>>

\* useAuth() gives an identity while the provider is mounted: the provider
\* keeps its state, renders, and its load effect runs again and issues the
\* remote read of timers, answered with the rows the store holds
SignIn ==
    /\ Called
    /\ ~user
    /\ pending = Undefined
    /\ user' = TRUE
    /\ pending' = Some(remote)
    /\ rendered' = timers
    /\ Done("signIn", "-", TRUE, timers, timers)
    /\ UNCHANGED <<timers, history, now, stored, remote, remoteHistory, uuids, reported>>

\* the rest of fetchRemote, once the read of timers has answered: setTimers
\* only `if (timersData && !timersError)`, then the read of week_history and
\* setHistory only `if (historyData && !historyError)`
fetchRemoteAnswered(okT, okH, order) ==
    /\ pending # Undefined
    /\ user
    /\ LET mapped == SeqMap(MapRow, Reorder(pending[1], order))
           caughtUp == CatchUpAll(mapped, now)
           mappedHistory == SeqMap(MapHistoryRow, OrderDesc(remoteHistory))
           ts == IF okT THEN caughtUp ELSE timers
       IN /\ timers' = ts
          /\ history' = IF okH THEN mappedHistory ELSE history
          /\ rendered' = IF okT \/ okH THEN ts ELSE rendered
          /\ Done("fetch", "-", okT, timers, ts)
    /\ pending' = Undefined
    /\ UNCHANGED <<user, now, stored, remote, remoteHistory, uuids, ops, reported>>

----------------------------------------------------------------------------
(* The specifications *)

\* the ids the callers can hold: those handed out so far
IssuedIds == {TimerIds[i] : i \in 1..uuids.timer}

\* a call of the Action API whose remote writes all succeed
Api ==
    \/ \E newTimer \in AddInputs : addTimer(newTimer, TRUE)
    \/ \E id \in IssuedIds, updates \in UpdateInputs : updateTimer(id, updates, TRUE)
    \/ \E id \in IssuedIds : deleteTimer(id, TRUE)
    \/ \E id \in IssuedIds : toggleTimer(id, TRUE)
    \/ \E id \in IssuedIds, seconds \in DeductInputs : deductTime(id, seconds, TRUE)
    \/ resetWeek(TRUE, IdsOf(rendered))

Background == Tick \/ Render \/ ClockAdvance

\* remote-synced mode with a store that answers every call
Next ==
    \/ Api /\ UNCHANGED faults
    \/ Background
    \/ \E order \in Orders(remote) : fetchRemote(TRUE, TRUE, order) /\ UNCHANGED faults

Spec == Init /\ [][Next]_vars

\* local-only mode
NextLocal ==
    \/ Api /\ UNCHANGED faults
    \/ Background
    \/ LoadLocal /\ UNCHANGED faults

SpecLocal == InitLocal /\ [][NextLocal]_vars

\* remote-synced mode with a store whose calls may fail
ApiFaulty ==
    \/ \E newTimer \in AddInputs, ok \in BOOLEAN : Failed(Bit(~ok)) /\ addTimer(newTimer, ok)
    \/ \E id \in IssuedIds, updates \in UpdateInputs, ok \in BOOLEAN :
          Failed(Bit(~ok)) /\ updateTimer(id, updates, ok)
    \/ \E id \in IssuedIds, ok \in BOOLEAN : Failed(Bit(~ok)) /\ deleteTimer(id, ok)
    \/ \E id \in IssuedIds, ok \in BOOLEAN : Failed(Bit(~ok)) /\ toggleTimer(id, ok)
    \/ \E id \in IssuedIds, seconds \in DeductInputs, ok \in BOOLEAN :
          Failed(Bit(~ok)) /\ deductTime(id, seconds, ok)
    \/ \E okH \in BOOLEAN, okIds \in SUBSET IdsOf(rendered) :
          /\ Failed(Bit(~okH) + Cardinality(IdsOf(rendered) \ okIds))
          /\ resetWeek(okH, okIds)

NextFaulty ==
    \/ ApiFaulty
    \/ Background
    \/ \E okT \in BOOLEAN, okH \in BOOLEAN, order \in Orders(remote) :
          Failed(Bit(~okT) + Bit(~okH)) /\ fetchRemote(okT, okH, order)

SpecFaulty == Init /\ [][NextFaulty]_vars

\* a session that starts without an identity and signs in; the remote reads
\* may fail
NextSession ==
    \/ Api /\ UNCHANGED faults
    \/ Background
    \/ SignIn /\ UNCHANGED faults
    \/ /\ pending # Undefined
       /\ \E okT \in BOOLEAN, okH \in BOOLEAN, order \in Orders(pending[1]) :
             Failed(Bit(~okT) + Bit(~okH)) /\ fetchRemoteAnswered(okT, okH, order)

SpecSession == InitLocal /\ [][NextSession]_vars

----------------------------------------------------------------------------
(* The tick and the load on their own: the provider holds, and the store   *)
(* has persisted, a list of timers of any shape the Action API can leave   *)
(* (a lastTickAt ahead of the clock is one taken on a device whose clock   *)
(* is ahead); then only the interval, the loads and the clock act.         *)

LastTicks == {StartMs, StartMs + StepMs, StartMs + 3 * StepMs}

Shape(id, type, remaining, elapsed, lastTickAt) ==
    [id |-> id, type |-> type, title |-> "Work",
     totalSeconds |-> IF type = "goal" THEN 3 ELSE 0,
     remainingSeconds |-> remaining, elapsedSeconds |-> elapsed,
     isRunning |-> lastTickAt # Undefined, lastTickAt |-> lastTickAt,
     color |-> "red", size |-> "small"]

Shapes(id) ==
    { Shape(id, "goal", r, 0, l) : r \in {0, 1, 3}, l \in {Undefined} \cup {Some(x) : x \in LastTicks} }
    \cup
    { Shape(id, "stopwatch", 0, e, l) : e \in {0, 2}, l \in {Undefined} \cup {Some(x) : x \in LastTicks} }

ShapeLists ==
    { <<a>> : a \in Shapes(TimerIds[1]) }
    \cup { <<a, b>> : a \in Shapes(TimerIds[1]), b \in Shapes(TimerIds[2]) }

\* the row of a timer the Action API has written field by field
RowOf(t) ==
    [InsertRow(t) EXCEPT !.last_tick_at = OrNull(t.lastTickAt)]

InitFn ==
    /\ user \in BOOLEAN
    /\ pending = <<>>
    /\ timers \in ShapeLists
    /\ history = <<>>
    /\ rendered = timers
    /\ now = StartMs
    /\ stored = IF user THEN Persist(<<>>, <<>>) ELSE Persist(timers, <<>>)
    /\ remote = IF user THEN SeqMap(RowOf, timers) ELSE <<>>
    /\ remoteHistory = <<>>
    /\ uuids = [timer |-> Len(timers), week |-> 0]
    /\ last = [op |-> "mount", id |-> "-", ok |-> FALSE, hit |-> {}]
    /\ ops = 0
    /\ faults = 0
    /\ reported = 0

NextFn ==
    \/ Background
    \/ LoadLocal /\ UNCHANGED faults
    \/ \E order \in Orders(remote) : fetchRemote(TRUE, TRUE, order) /\ UNCHANGED faults

SpecFn == InitFn /\ [][NextFn]_vars

\* the same lists of timers with nothing but the interval, the renders and the
\* clock acting: setInterval keeps calling the callback (line 190), React
\* renders after every state change, and the wall clock moves on
SpecLive ==
    /\ InitFn
    /\ [][Background]_vars
    /\ WF_vars(Tick)
    /\ WF_vars(Render)
    /\ WF_vars(ClockAdvance)

\* local-only mode on a device whose localStorage holds a list of one timer
\* and a history, either of which may be an item the provider did not write;
\* the page is loaded, the interval runs and the clock moves
StoredTimers ==
    {SeqMap(Stringify, <<a>>) : a \in Shapes(TimerIds[1])} \cup {Garbled, NotAnArray}
StoredHistories ==
    {<<>>,
     <<[id |-> WeekIds[1], weekStart |-> ToISOString(StartMs), timersSnapshot |-> Some(<<>>)]>>,
     Garbled, NotHistory}

InitStored ==
    /\ user = FALSE
    /\ pending = Undefined
    /\ timers = <<>>
    /\ history = <<>>
    /\ rendered = <<>>
    /\ now = StartMs
    /\ stored \in [timers : StoredTimers, history : StoredHistories]
    /\ remote = <<>>
    /\ remoteHistory = <<>>
    /\ uuids = [timer |-> 1, week |-> 1]
    /\ last = [op |-> "mount", id |-> "-", ok |-> FALSE, hit |-> {}]
    /\ ops = 0
    /\ faults = 0
    /\ reported = 0

NextStored ==
    \/ LoadLocal /\ UNCHANGED faults
    \/ Background

SpecStored == InitStored /\ [][NextStored]_vars

----------------------------------------------------------------------------
(* Helpers of the claims *)

\* the instants from `from` on, up to two seconds past the clock's range
Instants(from) ==
    {from + k * StepMs : k \in 0..((MaxNow + 2 * MsPerSec - from) \div StepMs)}

\* the timer after the interval has run at each instant of `times`, in order
RECURSIVE TickThrough(_, _)
TickThrough(t, times) ==
    IF times = {} THEN t
    ELSE LET first == CHOOSE x \in times : \A y \in times : x <= y
         IN TickThrough(TickTimer(t, first), times \ {first})

\* what a fresh load at T makes of the remote row of `id`
Reloaded(id, T) == CatchUp(MapRow(Find(remote, id)), T)

SameProgress(a, b) ==
    /\ a.remainingSeconds = b.remainingSeconds
    /\ a.elapsedSeconds = b.elapsedSeconds

SameRun(a, b) ==
    /\ SameProgress(a, b)
    /\ a.isRunning = b.isRunning
    /\ a.lastTickAt = b.lastTickAt

----------------------------------------------------------------------------
(* The claims *)

\* C1: after a toggleTimer(A) call that starts timer A, no timer other than A
\* is running: every other timer is paused and has its lastTickAt cleared.
\* Stated over the states in which every timer was set running by a start
\* (its lastTickAt is set), so that a violation is toggleTimer's own.
C1_SingleRunning ==
    (/\ last.op = "toggleTimer"
     /\ \A i \in 1..Len(timers) :
           timers[i].isRunning <=> timers[i].lastTickAt # Undefined
     /\ \E i \in 1..Len(timers) : timers[i].id = last.id /\ timers[i].isRunning)
    => \A j \in 1..Len(timers) :
          timers[j].id # last.id =>
             ~timers[j].isRunning /\ timers[j].lastTickAt = Undefined

\* C2: remote-synced mode: once toggleTimer has started timer X and its remote
\* write has succeeded, and only ticks follow, then at every later instant T
\* a fresh load of X's remote row followed by the catch-up gives the same
\* remaining/elapsed seconds, isRunning and lastTickAt as the client's timer
\* has after a tick at T (whatever ticks ran before T).
C2_ReloadMatchesTicks ==
    (/\ last.op = "toggleTimer" /\ last.ok
     /\ HasId(timers, last.id) /\ Find(timers, last.id).isRunning)
    => /\ HasId(remote, last.id)
       /\ \A T \in Instants(now) :
            \A earlier \in SUBSET {x \in Instants(now) : x < T} :
               SameRun(Reloaded(last.id, T),
                       TickThrough(Find(timers, last.id), earlier \cup {T}))

\* C3: remote-synced mode, every remote write succeeding: in every state, for
\* every timer and every instant T from now on, loading its remote row at T
\* and catching up gives the same remainingSeconds and elapsedSeconds as the
\* in-memory timer has after a tick at T.
C3_NoTimeLostOrDoubled ==
    \A i \in 1..Len(timers) :
       /\ HasId(remote, timers[i].id)
       /\ \A T \in Instants(now) :
             SameProgress(Reloaded(timers[i].id, T), TickTimer(timers[i], T))

\* C7: in every reachable in-memory state every timer is running if and only
\* if its lastTickAt is set.
C7_RunningIffLastTick ==
    \A i \in 1..Len(timers) : timers[i].isRunning <=> timers[i].lastTickAt # Undefined

\* C8: in every reachable in-memory state every Goal timer has
\* 0 <= remainingSeconds <= totalSeconds.
C8_RemainingInRange ==
    \A i \in 1..Len(timers) :
       timers[i].type = "goal" =>
          0 <= timers[i].remainingSeconds
          /\ timers[i].remainingSeconds <= timers[i].totalSeconds

\* C9: Finished is terminal: toggleTimer on a Goal timer whose
\* remainingSeconds is 0 does not put it into the running state (a Goal with
\* remainingSeconds = 0 is not running and has no lastTickAt).
C9_FinishedIsTerminal ==
    last.op = "toggleTimer" =>
       \A i \in 1..Len(timers) :
          (timers[i].id = last.id /\ timers[i].type = "goal"
           /\ timers[i].remainingSeconds = 0)
          => ~timers[i].isRunning /\ timers[i].lastTickAt = Undefined

\* C4: one tick at `now` updates every running timer with
\* deltaMs = now - lastTickAt >= 1000, s = floor(deltaMs / 1000), so: a
\* Stopwatch gets elapsedSeconds + s and lastTickAt + 1000 * s; a Goal with
\* remainingSeconds - s > 0 gets remainingSeconds - s and lastTickAt + 1000 * s
\* and stays running; a Goal with remainingSeconds - s <= 0 gets
\* remainingSeconds = 0, isRunning = false and no lastTickAt.
C4_TickUpdate ==
    [][Tick =>
        /\ Len(timers') = Len(timers)
        /\ \A i \in 1..Len(timers) :
              LET t == timers[i]
                  u == timers'[i]
              IN (t.isRunning /\ t.lastTickAt # Undefined
                  /\ now - t.lastTickAt[1] >= MsPerSec)
                 => LET s == (now - t.lastTickAt[1]) \div MsPerSec IN
                    /\ u.id = t.id
                    /\ t.type = "stopwatch" =>
                          /\ u.elapsedSeconds = t.elapsedSeconds + s
                          /\ u.lastTickAt = Some(t.lastTickAt[1] + MsPerSec * s)
                          /\ u.isRunning
                    /\ (t.type = "goal" /\ t.remainingSeconds - s > 0) =>
                          /\ u.remainingSeconds = t.remainingSeconds - s
                          /\ u.lastTickAt = Some(t.lastTickAt[1] + MsPerSec * s)
                          /\ u.isRunning
                    /\ (t.type = "goal" /\ t.remainingSeconds - s <= 0) =>
                          /\ u.remainingSeconds = 0
                          /\ ~u.isRunning
                          /\ u.lastTickAt = Undefined
      ]_vars

\* a tick has brought a Goal to 0 and stopped it, and has advanced another
\* timer that keeps running
C4_Witness ==
    /\ last.op = "tick"
    /\ \E i \in 1..Len(timers) :
          /\ timers[i].id \in last.hit /\ timers[i].type = "goal"
          /\ timers[i].remainingSeconds = 0 /\ ~timers[i].isRunning
    /\ \E j \in 1..Len(timers) :
          timers[j].id \in last.hit /\ timers[j].isRunning

\* the timer a load puts in the list for a record persisted as running with
\* type, remainingSeconds R, elapsedSeconds E and lastTickAt L, at nowMs > L
CaughtUpAs(u, type, R, E, L, nowMs) ==
    LET s == (nowMs - L) \div MsPerSec IN
    /\ type = "stopwatch" =>
          /\ u.elapsedSeconds = E + s
          /\ u.isRunning /\ u.lastTickAt = Some(L + MsPerSec * s)
    /\ type = "goal" =>
          /\ u.remainingSeconds = Max(0, R - s)
          /\ IF Max(0, R - s) = 0
             THEN ~u.isRunning /\ u.lastTickAt = Undefined
             ELSE u.isRunning /\ u.lastTickAt = Some(L + MsPerSec * s)

\* C5: on load (local or remote) every timer persisted as running with
\* lastTickAt = L and deltaMs = now - L > 0 is loaded as: Stopwatch
\* elapsedSeconds + floor(deltaMs / 1000); Goal remainingSeconds =
\* max(0, R - floor(deltaMs / 1000)), and when that is 0 the timer is loaded
\* with isRunning = false and no lastTickAt.
C5_CatchUpOnLoad ==
    [][(last'.op = "load" /\ ops' = ops + 1) =>
        IF user
        THEN \A k \in 1..Len(remote) :
                LET d == remote[k] IN
                (d.is_running /\ d.last_tick_at # Undefined /\ now - d.last_tick_at[1] > 0)
                => \E i \in 1..Len(timers') :
                      /\ timers'[i].id = d.id
                      /\ CaughtUpAs(timers'[i], d.type, d.remaining_seconds,
                                    d.elapsed_seconds, d.last_tick_at[1], now)
        ELSE /\ Len(timers') = Len(stored.timers)
             /\ \A k \in 1..Len(stored.timers) :
                   LET p == stored.timers[k] IN
                   (p.isRunning /\ "lastTickAt" \in DOMAIN p /\ now - p.lastTickAt[1] > 0)
                   => /\ timers'[k].id = p.id
                      /\ CaughtUpAs(timers'[k], p.type, p.remainingSeconds,
                                    p.elapsedSeconds, p.lastTickAt[1], now)
      ]_vars

\* a load has found a Goal whose time ran out while the page was closed
C5_Witness ==
    /\ last.op = "load"
    /\ \E i \in 1..Len(timers) :
          /\ timers[i].id \in last.hit /\ timers[i].type = "goal"
          /\ timers[i].remainingSeconds = 0 /\ ~timers[i].isRunning
          /\ timers[i].lastTickAt = Undefined

\* n ticks in a row, each one second after the timer's lastTickAt
RECURSIVE TickTimes(_, _)
TickTimes(t, n) ==
    IF n = 0 THEN t
    ELSE TickTimes(TickTimer(t, t.lastTickAt[1] + MsPerSec), n - 1)

\* C6: for every running Goal timer and every N >= 1 with
\* remainingSeconds > N, the catch-up applied once with deltaMs = N * 1000
\* gives the same remainingSeconds, isRunning and lastTickAt as the tick's
\* update applied N times in a row, each with deltaMs = 1000.
C6_CatchUpIsNTicks ==
    \A i \in 1..Len(timers) :
       LET t == timers[i] IN
       (t.type = "goal" /\ t.isRunning /\ t.lastTickAt # Undefined)
       => \A N \in 1..(t.remainingSeconds - 1) :
             LET once == CatchUp(t, t.lastTickAt[1] + N * MsPerSec)
                 each == TickTimes(t, N)
             IN /\ once.remainingSeconds = each.remainingSeconds
                /\ once.isRunning = each.isRunning
                /\ once.lastTickAt = each.lastTickAt

\* a running Goal with more than two seconds left, which two ticks bring
\* two seconds down
C6_Witness ==
    \E i \in 1..Len(timers) :
       /\ timers[i].type = "goal" /\ timers[i].isRunning
       /\ timers[i].lastTickAt # Undefined
       /\ timers[i].remainingSeconds > 2
       /\ TickTimes(timers[i], 2).remainingSeconds = timers[i].remainingSeconds - 2

\* C10: after resetWeek the list has the same timers in the same order, and
\* every timer has remainingSeconds = totalSeconds, elapsedSeconds = 0,
\* isRunning = false and no lastTickAt, with id, title, color, size, type and
\* totalSeconds unchanged.
C10_ResetKeepsTimers ==
    [][(last'.op = "resetWeek" /\ ops' = ops + 1) =>
        /\ Len(timers') = Len(timers)
        /\ \A i \in 1..Len(timers) :
              LET t == timers[i]
                  u == timers'[i]
              IN /\ u.remainingSeconds = u.totalSeconds
                 /\ u.elapsedSeconds = 0
                 /\ ~u.isRunning
                 /\ u.lastTickAt = Undefined
                 /\ u.id = t.id /\ u.title = t.title /\ u.color = t.color
                 /\ u.size = t.size /\ u.type = t.type
                 /\ u.totalSeconds = t.totalSeconds
      ]_vars

\* a week with two timers has been archived, and the reset changed one of them
C10_Witness ==
    /\ last.op = "resetWeek"
    /\ Len(timers) = 2
    /\ last.hit # {}

\* C11: resetWeek puts exactly one new WeekHistory record at the front of the
\* history list; its timersSnapshot has one entry per current timer, in list
\* order, with title, type, totalSeconds and color copied and completedSeconds
\* = elapsedSeconds for a Stopwatch and totalSeconds - remainingSeconds for a
\* Goal, computed from the timers as they are in memory right before the reset.
C11_ArchiveSnapshot ==
    [][(last'.op = "resetWeek" /\ ops' = ops + 1) =>
        /\ Len(history') = Len(history) + 1
        /\ Tail(history') = history
        /\ Head(history').timersSnapshot # Undefined
        /\ LET items == Head(history').timersSnapshot[1] IN
           /\ Len(items) = Len(timers)
           /\ \A i \in 1..Len(timers) :
                 /\ items[i].title = timers[i].title
                 /\ items[i].type = timers[i].type
                 /\ items[i].totalSeconds = timers[i].totalSeconds
                 /\ items[i].color = timers[i].color
                 /\ items[i].completedSeconds =
                       IF timers[i].type = "stopwatch"
                       THEN timers[i].elapsedSeconds
                       ELSE timers[i].totalSeconds - timers[i].remainingSeconds
      ]_vars

\* C12: deductTime(id, s) with s > 0 on an existing timer: a Stopwatch gets
\* elapsedSeconds + s with isRunning and lastTickAt unchanged; a Goal gets
\* remainingSeconds = max(0, remainingSeconds - s), and if that is 0 it is
\* stopped and its lastTickAt cleared, otherwise isRunning and lastTickAt are
\* unchanged. All other timers are unchanged.
C12_DeductTime ==
    [][\A id \in IssuedIds, seconds \in DeductInputs :
          (deductTime(id, seconds, TRUE) /\ HasId(timers, id)) =>
             /\ Len(timers') = Len(timers)
             /\ \A i \in 1..Len(timers) :
                   LET t == timers[i]
                       u == timers'[i]
                   IN IF t.id # id THEN u = t
                      ELSE IF t.type = "stopwatch"
                      THEN /\ u.elapsedSeconds = t.elapsedSeconds + seconds
                           /\ u.isRunning = t.isRunning
                           /\ u.lastTickAt = t.lastTickAt
                      ELSE /\ u.remainingSeconds = Max(0, t.remainingSeconds - seconds)
                           /\ IF u.remainingSeconds = 0
                              THEN ~u.isRunning /\ u.lastTickAt = Undefined
                              ELSE /\ u.isRunning = t.isRunning
                                   /\ u.lastTickAt = t.lastTickAt
      ]_vars

\* C13: toggleTimer(id) on an existing timer that is not running makes it
\* running with lastTickAt = now; on a running timer it makes it not running
\* and clears lastTickAt; in both cases the timer's remainingSeconds,
\* elapsedSeconds, totalSeconds, title, type, color, size and id are unchanged.
C13_ToggleTimer ==
    [][\A id \in IssuedIds :
          (toggleTimer(id, TRUE) /\ HasId(timers, id)) =>
             /\ Len(timers') = Len(timers)
             /\ \A i \in 1..Len(timers) :
                   LET t == timers[i]
                       u == timers'[i]
                   IN t.id = id =>
                      /\ IF t.isRunning
                         THEN ~u.isRunning /\ u.lastTickAt = Undefined
                         ELSE u.isRunning /\ u.lastTickAt = Some(now)
                      /\ u.remainingSeconds = t.remainingSeconds
                      /\ u.elapsedSeconds = t.elapsedSeconds
                      /\ u.totalSeconds = t.totalSeconds
                      /\ u.title = t.title /\ u.type = t.type
                      /\ u.color = t.color /\ u.size = t.size /\ u.id = t.id
      ]_vars

\* C14: addTimer appends exactly one timer at the end of the list, with an id
\* different from every existing timer's id, remainingSeconds = totalSeconds,
\* elapsedSeconds = 0, isRunning = false and no lastTickAt; all timers that
\* existed before are unchanged.
C14_AddTimer ==
    [][\A newTimer \in AddInputs :
          addTimer(newTimer, TRUE) =>
             /\ Len(timers') = Len(timers) + 1
             /\ SubSeq(timers', 1, Len(timers)) = timers
             /\ LET u == timers'[Len(timers')] IN
                /\ \A i \in 1..Len(timers) : timers[i].id # u.id
                /\ u.totalSeconds = newTimer.totalSeconds
                /\ u.remainingSeconds = u.totalSeconds
                /\ u.elapsedSeconds = 0
                /\ ~u.isRunning
                /\ u.lastTickAt = Undefined
                /\ u.type = newTimer.type /\ u.title = newTimer.title
                /\ u.color = newTimer.color /\ u.size = newTimer.size
      ]_vars

\* a Goal has been added behind a timer that is running
C14_Witness ==
    /\ last.op = "addTimer"
    /\ Len(timers) = 2
    /\ timers[1].isRunning
    /\ timers[2].id = last.id /\ timers[2].type = "goal"
    /\ timers[2].remainingSeconds > 0

\* the in-memory lists an Action API call leaves when its remote writes
\* succeed: the call is `op` on `id`, made in the state the step starts from
LocalEffect(op, id, ts, hs) ==
    \/ /\ op = "addTimer"
       /\ \E newTimer \in AddInputs : ts = Append(timers, NewTimer(newTimer, id))
       /\ hs = history
    \/ /\ op = "updateTimer"
       /\ \E updates \in UpdateInputs : ts = UpdateOne(timers, id, updates)
       /\ hs = history
    \/ /\ op = "deleteTimer"
       /\ ts = DeleteOne(timers, id)
       /\ hs = history
    \/ /\ op = "toggleTimer"
       /\ ts = IF HasId(rendered, id)
               THEN ToggleList(timers, id, ToggleNext(Find(rendered, id), now))
               ELSE timers
       /\ hs = history
    \/ /\ op = "deductTime"
       /\ \E seconds \in DeductInputs :
             ts = IF HasId(rendered, id)
                  THEN Replace(timers, id, DeductNext(Find(rendered, id), seconds))
                  ELSE timers
       /\ hs = history
    \/ /\ op = "resetWeek"
       /\ ts = ResetList(timers)
       /\ hs = <<[id |-> WeekIds[uuids.week + 1], weekStart |-> ToISOString(now),
                  timersSnapshot |-> Some(SeqMap(SnapshotItem, rendered))]>> \o history

\* C15: remote-synced mode: for addTimer, updateTimer, deleteTimer,
\* toggleTimer, deductTime and resetWeek, the in-memory timers and history
\* after a call whose remote write fails are the ones the call leaves when the
\* write succeeds: a remote failure never rolls back or alters the local change.
C15_NoRollback ==
    [][(faults' > faults /\ last'.op # "load") =>
          LocalEffect(last'.op, last'.id, timers', history')
      ]_vars

\* toggleTimer's remote write has failed: the timer runs in memory while its
\* remote row still says it does not
C15_Witness ==
    /\ last.op = "toggleTimer" /\ ~last.ok /\ faults > 0
    /\ \E i \in 1..Len(timers) :
          /\ timers[i].id = last.id /\ timers[i].isRunning
          /\ HasId(remote, last.id) /\ ~Find(remote, last.id).is_running

\* the calls of the Action API that write to the remote store
WritingOps ==
    {"addTimer", "updateTimer", "deleteTimer", "toggleTimer", "deductTime", "resetWeek"}

\* C16: remote-synced mode: a tick (and the render that follows it) never
\* writes to the remote store; the remote timers and history change only in
\* a step of addTimer, updateTimer, deleteTimer, toggleTimer, deductTime or
\* resetWeek, so the number of remote writes does not depend on the ticks.
C16_TickNeverWritesRemote ==
    [][/\ (Tick \/ Render) => (remote' = remote /\ remoteHistory' = remoteHistory)
       /\ (remote' # remote \/ remoteHistory' # remoteHistory) =>
             (ops' = ops + 1 /\ last'.op \in WritingOps)
      ]_vars

\* a tick has advanced a timer in memory and its remote row still holds the
\* seconds written by the last call
C16_Witness ==
    /\ user /\ last.op = "tick"
    /\ \E i \in 1..Len(timers) :
          /\ timers[i].id \in last.hit
          /\ HasId(remote, timers[i].id)
          /\ \/ Find(remote, timers[i].id).remaining_seconds # timers[i].remainingSeconds
             \/ Find(remote, timers[i].id).elapsed_seconds # timers[i].elapsedSeconds

C18_StopwatchMonotonic ==
    [][\A i \in 1..Len(timers), j \in 1..Len(timers') :
          (/\ timers'[j].id = timers[i].id
           /\ timers[i].type = "stopwatch"
           /\ timers[i].isRunning /\ timers'[j].isRunning)
          => timers'[j].elapsedSeconds >= timers[i].elapsedSeconds
      ]_vars

\* a running Stopwatch has been loaded with the clock behind its lastTickAt
C18_Witness ==
    /\ last.op = "load"
    /\ \E i \in 1..Len(timers) :
          /\ timers[i].type = "stopwatch" /\ timers[i].isRunning
          /\ timers[i].lastTickAt # Undefined
          /\ timers[i].lastTickAt[1] > now

\* C19: a tick leaves the whole timer list unchanged when no timer is
\* running, and leaves unchanged every timer that is not running or whose
\* deltaMs = now - lastTickAt is below 1000 (the part of a second that has
\* passed stays for the next tick).
C19_TickFrame ==
    [][Tick =>
        /\ (\A i \in 1..Len(timers) : ~timers[i].isRunning) => timers' = timers
        /\ Len(timers') = Len(timers)
        /\ \A i \in 1..Len(timers) :
              (\/ ~timers[i].isRunning
               \/ /\ timers[i].lastTickAt # Undefined
                  /\ now - timers[i].lastTickAt[1] < MsPerSec)
              => timers'[i] = timers[i]
      ]_vars

\* a tick has advanced one timer and has left alone a running timer that was
\* half a second into its next second
C19_Witness ==
    /\ last.op = "tick" /\ last.hit # {}
    /\ \E i \in 1..Len(timers) :
          /\ timers[i].id \notin last.hit /\ timers[i].isRunning
          /\ timers[i].lastTickAt # Undefined
          /\ now - timers[i].lastTickAt[1] > 0
          /\ now - timers[i].lastTickAt[1] < MsPerSec

\* C20: on load the catch-up changes nothing of a timer persisted as running
\* whose deltaMs = now - lastTickAt is <= 0 (clock skew or immediate
\* reload), and nothing of a timer persisted as not running: the timer is
\* loaded as it was persisted.
C20_CatchUpFrame ==
    [][(last'.op = "load" /\ ops' = ops + 1) =>
        IF user
        THEN \A k \in 1..Len(remote) :
                LET d == remote[k] IN
                (\/ ~d.is_running
                 \/ d.last_tick_at # Undefined /\ now - d.last_tick_at[1] <= 0)
                => \E i \in 1..Len(timers') : timers'[i] = MapRow(d)
        ELSE /\ Len(timers') = Len(stored.timers)
             /\ \A k \in 1..Len(stored.timers) :
                   LET p == stored.timers[k] IN
                   (\/ ~p.isRunning
                    \/ "lastTickAt" \in DOMAIN p /\ now - p.lastTickAt[1] <= 0)
                   => timers'[k] = Parse(p)
      ]_vars

\* a load has caught one timer up and has left alone a running timer whose
\* lastTickAt is not behind the clock
C20_Witness ==
    /\ last.op = "load" /\ last.hit # {}
    /\ \E i \in 1..Len(timers) :
          /\ timers[i].id \notin last.hit /\ timers[i].isRunning
          /\ timers[i].lastTickAt # Undefined
          /\ timers[i].lastTickAt[1] >= now

\* C21: updateTimer(id, fields) and deleteTimer(id) with an id that matches
\* no timer leave the timer list and the history unchanged; deleteTimer with
\* a matching id removes exactly that timer and leaves all others unchanged
\* and in order.
C21_UnknownIdAndDelete ==
    [][(ops' = ops + 1 /\ last'.op \in {"updateTimer", "deleteTimer"})
       => LET id == last'.id IN
          /\ ~HasId(timers, id) => (timers' = timers /\ history' = history)
          /\ (last'.op = "deleteTimer" /\ HasId(timers, id))
                => /\ history' = history
                   /\ \E k \in 1..Len(timers) :
                         /\ timers[k].id = id
                         /\ timers' = SubSeq(timers, 1, k - 1)
                                        \o SubSeq(timers, k + 1, Len(timers))
      ]_vars

\* updateTimer has been called with the id of a timer deleted before, while
\* another timer is in the list
C21_Witness ==
    /\ last.op = "updateTimer"
    /\ ~HasId(timers, last.id)
    /\ Len(timers) = 1

\* C22: within a session a history record, once in the in-memory list, is
\* never changed, removed or reordered by a later action (add, update,
\* delete, toggle, deduct, tick, further archiveWeek): the list before the
\* step is the tail of the list after it, and only archiveWeek adds records.
C22_HistoryAppendOnly ==
    [][~(ops' = ops + 1 /\ last'.op = "load")
       => /\ Len(history') >= Len(history)
          /\ SubSeq(history', Len(history') - Len(history) + 1, Len(history'))
                = history
          /\ history' # history
                => /\ ops' = ops + 1
                   /\ last'.op = "resetWeek"
                   /\ Len(history') = Len(history) + 1
      ]_vars

\* a further archiveWeek has run while a record was already in the list
C22_Witness ==
    /\ last.op = "resetWeek"
    /\ Len(history) = 2
    /\ history[1].id # history[2].id
    /\ timers # <<>>

\* C23: when the initial remote read of timers fails, the in-memory timer
\* list is empty afterwards, whatever it held before the sign-in, and the
\* read is not issued again.
C23_FailedReadEmptiesTimers ==
    [][\A okH \in BOOLEAN :
          (pending # Undefined
           /\ \E order \in Orders(pending[1]) : fetchRemoteAnswered(FALSE, okH, order))
          => (timers' = <<>> /\ pending' = Undefined)
      ]_vars

\* C24: in local-only mode a malformed or unparsable timers item
\* (respectively history item) makes the load end with an empty timer list
\* (respectively history list); a corrupt timers item does not keep a valid
\* history item from loading, and the other way round.
C24_CorruptSnapshotGivesEmpty ==
    [][LoadLocal =>
          /\ stored.timers \in {Garbled, NotAnArray} => timers' = <<>>
          /\ stored.history \in {Garbled, NotHistory} => history' = <<>>
          /\ stored.history \notin {Garbled, NotHistory} => history' = stored.history
          /\ stored.timers \notin {Garbled, NotAnArray}
                => timers' = CatchUpAll(SeqMap(Parse, stored.timers), now)
      ]_vars

\* C25: actions take effect in invocation order with no lost update, also
\* when an action follows a tick it has not yet observed: toggleTimer and
\* deductTime give the timer the values computed from the list the state
\* holds at that moment, never from an older one.
C25_NoLostUpdate ==
    [][\A id \in IssuedIds :
          /\ (toggleTimer(id, TRUE) /\ HasId(timers, id))
                => timers' = Replace(timers, id, ToggleNext(Find(timers, id), now))
          /\ \A seconds \in DeductInputs :
                (deductTime(id, seconds, TRUE) /\ HasId(timers, id))
                => timers' = Replace(timers, id, DeductNext(Find(timers, id), seconds))
      ]_vars

\* C26: an optimistic local change is never undone by a remote read that
\* completes later: when addTimer, toggleTimer or deductTime has been applied
\* in memory while the remote read issued at sign-in was in flight, the timer
\* it added or changed is in the list, as the action left it, after the read
\* has been handled.
C26_FetchKeepsOptimisticChange ==
    [][(/\ pending # Undefined
        /\ pending' = Undefined
        /\ last.op \in {"addTimer", "toggleTimer", "deductTime"}
        /\ HasId(timers, last.id))
       => /\ HasId(timers', last.id)
          /\ Find(timers', last.id) = Find(timers, last.id)
      ]_vars

\* C27: history round-trips through the remote store: a WeekHistory record
\* archived in remote-synced mode is, after the next load, in the history
\* with the same id, the same weekStart and a timersSnapshot equal to the
\* archived array.
C27_HistoryRoundTrip ==
    [][\A order \in Orders(remote) :
          fetchRemote(TRUE, TRUE, order)
          => \A i \in 1..Len(remoteHistory) :
                \E j \in 1..Len(history') :
                   /\ history'[j].id = remoteHistory[i].id
                   /\ history'[j].weekStart = remoteHistory[i].week_start
                   /\ history'[j].timersSnapshot = Some(remoteHistory[i].snapshot_json)
      ]_vars

\* C28: every updateTimer(id, fields) on an existing timer is persisted
\* field by field in remote-synced mode: after the write the timer's remote
\* row agrees with the in-memory timer on every field in `fields`, also when
\* `fields` holds only remainingSeconds, elapsedSeconds, isRunning or
\* lastTickAt.
C28_UpdatePersistsFields ==
    [][\A id \in IssuedIds, updates \in UpdateInputs :
          (updateTimer(id, updates, TRUE) /\ user /\ HasId(timers, id) /\ HasId(remote, id))
          => \A f \in DOMAIN updates :
                MapRow(Find(remote', id))[f] = Find(timers', id)[f]
      ]_vars

\* C29: in archiveWeek the per-timer remote reset is attempted for every
\* timer, also when the history insert or another timer's reset fails: every
\* row whose own write succeeds is reset, and the local archive-append and
\* reset have happened whatever fails.
C29_ResetAttemptsEveryTimer ==
    [][\A okH \in BOOLEAN, okIds \in SUBSET IdsOf(rendered) :
          resetWeek(okH, okIds)
          => /\ timers' = ResetList(timers)
             /\ Len(history') = Len(history) + 1
             /\ Tail(history') = history
             /\ Len(remote') = Len(remote)
             /\ \A k \in 1..Len(remote) :
                   (remote[k].id \in okIds)
                   => /\ remote'[k].id = remote[k].id
                      /\ remote'[k].remaining_seconds = Find(rendered, remote[k].id).totalSeconds
                      /\ remote'[k].elapsed_seconds = 0
                      /\ remote'[k].is_running = FALSE
                      /\ remote'[k].last_tick_at = Undefined
      ]_vars

\* archiveWeek has run with two timers; one remote write of it failed (the
\* history insert, or the reset of the row that is still as it was) and the
\* rows of the other timers are reset
C29_Witness ==
    /\ last.op = "resetWeek"
    /\ faults = 1
    /\ Len(timers) = 2
    /\ Len(remote) = 2
    /\ Len(history) = 1
    /\ timers = ResetList(timers)
    /\ \/ remoteHistory = <<>>
       \/ \E k \in 1..2 : remote[k].elapsed_seconds # 0
                          \/ remote[k].remaining_seconds # remote[k].total_seconds

\* C30: every failed remote write is reported to an observability sink
\* exactly once, and is not retried: a step in which n remote writes fail
\* hands n reports to the sink.
C30_FailedWriteReportedOnce ==
    [][(faults' # faults /\ last'.op \notin {"load", "fetch"})
       => reported' - reported = faults' - faults
      ]_vars

\* the seconds credited to timer `b` since it was `a`
Credited(a, b) ==
    IF a.type = "stopwatch"
    THEN b.elapsedSeconds - a.elapsedSeconds
    ELSE a.remainingSeconds - b.remainingSeconds

\* C31: no running time is lost at pause: for a timer started by toggleTimer
\* at t0 (the present state) and paused by toggleTimer at t1 >= t0, under any
\* schedule of ticks in between, the seconds credited to it (elapsedSeconds
\* gained, or remainingSeconds consumed by a Goal that does not reach 0)
\* equal floor((t1 - t0) / 1000).
C31_NoTimeLostAtPause ==
    (/\ last.op = "toggleTimer"
     /\ HasId(timers, last.id)
     /\ Find(timers, last.id).isRunning
     /\ Find(timers, last.id).lastTickAt = Some(now))
    => LET started == Find(timers, last.id) IN
       \A t1 \in Instants(now) :
          \A ticks \in SUBSET {x \in Instants(now) : x <= t1} :
             LET ticked == TickThrough(started, ticks)
                 paused == ToggleNext(ticked, t1)
             IN ticked.isRunning
                => /\ ~paused.isRunning
                   /\ Credited(started, paused) = (t1 - now) \div MsPerSec

\* lastTickAt - 1000 * elapsedSeconds of a Stopwatch, lastTickAt + 1000 *
\* remainingSeconds of a Goal
Anchor(t) ==
    IF t.type = "stopwatch"
    THEN t.lastTickAt[1] - MsPerSec * t.elapsedSeconds
    ELSE t.lastTickAt[1] + MsPerSec * t.remainingSeconds

Runs(t) == t.isRunning /\ t.lastTickAt # Undefined

\* C32: no long-run drift: while a timer stays running and only ticks and
\* load-time reconciliations act on it, lastTickAt - 1000 * elapsedSeconds
\* (Stopwatch) or lastTickAt + 1000 * remainingSeconds (Goal, before it
\* reaches 0) is constant; so from a state in which lastTickAt = t0 <= now,
\* after a tick at T the seconds credited equal floor((T - t0) / 1000),
\* however the ticks before T were spaced.
C32_NoDrift ==
    [][/\ \A i \in 1..Len(timers), j \in 1..Len(timers') :
             (timers[i].id = timers'[j].id /\ Runs(timers[i]) /\ Runs(timers'[j]))
             => Anchor(timers'[j]) = Anchor(timers[i])
       /\ (last.op = "mount" /\ now = StartMs)
          => \A i \in 1..Len(timers) :
                (Runs(timers[i]) /\ timers[i].lastTickAt[1] <= now)
                => LET t0 == timers[i].lastTickAt[1] IN
                   \A T \in Instants(now) :
                      \A ticks \in SUBSET {x \in Instants(now) : x < T} :
                         LET ticked == TickThrough(timers[i], ticks \cup {T}) IN
                         Runs(ticked)
                         => Credited(timers[i], ticked) = (T - t0) \div MsPerSec
      ]_vars

\* a running timer has been ticked, by two seconds or more at once, and is
\* still running
C32_Witness ==
    /\ last.op = "tick"
    /\ \E i \in 1..Len(timers) :
          /\ timers[i].id \in last.hit
          /\ Runs(timers[i])
          /\ timers[i].lastTickAt[1] >= StartMs + 2 * MsPerSec

\* the instant from which a tick brings the running Goal `t` to 0
DueAt(t) == t.lastTickAt[1] + MsPerSec * Max(1, t.remainingSeconds)

GoalRunning(id) ==
    /\ HasId(timers, id)
    /\ Find(timers, id).type = "goal"
    /\ Runs(Find(timers, id))
    /\ DueAt(Find(timers, id)) <= MaxNow

GoalFinished(id) ==
    /\ HasId(timers, id)
    /\ Find(timers, id).remainingSeconds = 0
    /\ ~Find(timers, id).isRunning
    /\ Find(timers, id).lastTickAt = Undefined

\* C33: liveness of goal completion: a Goal that is running and is not
\* paused, edited, deleted or reset, while the clock keeps advancing (up to
\* the instant its time is used up) and ticks keep being executed, eventually
\* has remainingSeconds = 0, isRunning = false and no lastTickAt, and stays
\* so under further ticks.
C33_GoalCompletes ==
    \A id \in {TimerIds[1], TimerIds[2]} :
       [](GoalRunning(id) => <>[]GoalFinished(id))

\* a tick has brought a running Goal to 0 and stopped it
C33_Witness ==
    /\ last.op = "tick"
    /\ \E id \in last.hit : GoalFinished(id) /\ Find(timers, id).type = "goal"
    /\ now >= StartMs + MsPerSec

\* C34: a Stopwatch never auto-terminates: no tick and no load-time
\* reconciliation changes a Stopwatch's isRunning from true to false or clears
\* its lastTickAt, for any elapsed value and any deltaMs.
C34_StopwatchNeverEnds ==
    [][/\ \A i \in 1..Len(timers), j \in 1..Len(timers') :
             (timers[i].id = timers'[j].id /\ timers[i].type = "stopwatch")
             => /\ timers[i].isRunning => timers'[j].isRunning
                /\ timers[i].lastTickAt # Undefined => timers'[j].lastTickAt # Undefined
       /\ \A i \in 1..Len(timers), T \in Instants(StartMs) :
             timers[i].type = "stopwatch"
             => /\ timers[i].isRunning
                   => (TickTimer(timers[i], T).isRunning /\ CatchUp(timers[i], T).isRunning)
                /\ timers[i].lastTickAt # Undefined
                   => /\ TickTimer(timers[i], T).lastTickAt # Undefined
                      /\ CatchUp(timers[i], T).lastTickAt # Undefined
      ]_vars

\* a tick has credited a running Stopwatch, which then has two seconds or
\* more and is still running
C34_Witness ==
    /\ last.op = "tick"
    /\ \E i \in 1..Len(timers) :
          /\ timers[i].id \in last.hit
          /\ timers[i].type = "stopwatch"
          /\ timers[i].elapsedSeconds >= 2
          /\ Runs(timers[i])

\* the ids and types of a list, in order
IdsInOrder(ts) == [i \in 1..Len(ts) |-> <<ts[i].id, ts[i].type>>]

\* C35: the timer list is kept in insertion order and ids are immutable:
\* toggleTimer, deductTime, updateTimer of presentation fields, archiveWeek
\* and ticks leave the list's length, id sequence and each timer's type
\* unchanged; only addTimer (append at the end) and deleteTimer (remove one)
\* change membership.
C35_OrderAndIdsKept ==
    [][~(ops' = ops + 1 /\ last'.op = "load")
       => IF ops' = ops + 1 /\ last'.op = "addTimer"
          THEN /\ Len(timers') = Len(timers) + 1
               /\ IdsInOrder(SubSeq(timers', 1, Len(timers))) = IdsInOrder(timers)
               /\ timers'[Len(timers')].id = last'.id
               /\ ~HasId(timers, last'.id)
          ELSE IF ops' = ops + 1 /\ last'.op = "deleteTimer"
          THEN IdsInOrder(timers') =
                  SelectSeq(IdsInOrder(timers), LAMBDA p : p[1] # last'.id)
          ELSE IdsInOrder(timers') = IdsInOrder(timers)
      ]_vars

\* toggleTimer has started the first of two timers
C35_Witness ==
    /\ last.op = "toggleTimer"
    /\ Len(timers) = 2
    /\ timers[1].id = last.id
    /\ timers[1].isRunning
    /\ timers[1].id = TimerIds[1]

\* C36: after a tick at `now` that leaves a timer running, the timer's
\* lastTickAt satisfies lastTickAt <= now and now - lastTickAt < 1000,
\* provided lastTickAt <= now held before the tick; and the lastTickAt of a
\* running timer never moves backwards under ticks.
C36_LastTickWithinSecond ==
    [][Tick =>
          /\ Len(timers') = Len(timers)
          /\ \A i \in 1..Len(timers) :
                (Runs(timers[i]) /\ Runs(timers'[i]))
                => /\ timers'[i].lastTickAt[1] >= timers[i].lastTickAt[1]
                   /\ timers[i].lastTickAt[1] <= now
                      => /\ timers'[i].lastTickAt[1] <= now
                         /\ now - timers'[i].lastTickAt[1] < MsPerSec
      ]_vars

\* a tick has credited a running timer, which is still running with its
\* lastTickAt half a second behind the clock
C36_Witness ==
    /\ last.op = "tick"
    /\ \E i \in 1..Len(timers) :
          /\ timers[i].id \in last.hit
          /\ Runs(timers[i])
          /\ now - timers[i].lastTickAt[1] = StepMs

\* C37: a Goal's remainingSeconds never increases under ticks, load-time
\* reconciliations, toggleTimer or deductTime with positive seconds (it can
\* only increase through archiveWeek or updateTimer).
C37_RemainingNeverIncreases ==
    [][/\ (Tick \/ (ops' = ops + 1 /\ last'.op \in {"toggleTimer", "deductTime"}))
          => \A i \in 1..Len(timers), j \in 1..Len(timers') :
                (timers[i].id = timers'[j].id /\ timers[i].type = "goal")
                => timers'[j].remainingSeconds <= timers[i].remainingSeconds
       /\ \A i \in 1..Len(timers), T \in Instants(StartMs) :
             timers[i].type = "goal"
             => CatchUp(timers[i], T).remainingSeconds <= timers[i].remainingSeconds
      ]_vars

\* C38: toggleTimer(id) and deductTime(id, s) with an id that matches no
\* timer change nothing: the in-memory timer list and the history are
\* unchanged and, in remote-synced mode, no remote write is issued.
C38_UnknownIdNoEffect ==
    [][(/\ ops' = ops + 1
        /\ last'.op \in {"toggleTimer", "deductTime"}
        /\ ~HasId(timers, last'.id))
       => /\ timers' = timers
          /\ history' = history
          /\ remote' = remote
          /\ remoteHistory' = remoteHistory
          /\ ~last'.ok
      ]_vars

\* toggleTimer has been called with the id of a timer deleted before, while
\* another timer, with its remote row, is in the list
C38_Witness ==
    /\ last.op = "toggleTimer"
    /\ ~HasId(timers, last.id)
    /\ Len(timers) = 1
    /\ Len(remote) = 1
    /\ user

----------------------------------------------------------------------------
(* The updaters of the other TimerProvider of the repository (part_001),    *)
(* where they differ from those of store/TimerContext.tsx                   *)

\* its toggleTimer: the updater toggles the timer with the id and pauses
\* every other running timer
toggleTimerLocal(prev, id, nowMs) ==
    [i \in 1..Len(prev) |->
        LET t == prev[i] IN
        IF t.id = id
        THEN IF ~t.isRunning
             THEN [t EXCEPT !.isRunning = TRUE, !.lastTickAt = Some(nowMs)]
             ELSE [t EXCEPT !.isRunning = FALSE, !.lastTickAt = Undefined]
        ELSE IF t.isRunning
             THEN [t EXCEPT !.isRunning = FALSE, !.lastTickAt = Undefined]
             ELSE t]

\* its deductTime: the updater computes from the timer the state holds
deductTimeLocal(prev, id, seconds) ==
    [i \in 1..Len(prev) |->
        IF prev[i].id = id THEN DeductNext(prev[i], seconds) ELSE prev[i]]

\* its resetWeek: the updater leaves elapsedSeconds as it is
resetWeekLocal(prev) ==
    [i \in 1..Len(prev) |->
        [prev[i] EXCEPT !.remainingSeconds = prev[i].totalSeconds,
                        !.isRunning = FALSE, !.lastTickAt = Undefined]]

\* C39: with no signed-in identity the TimerProvider of store/TimerContext.tsx
\* and the one of part_001 are observationally equivalent: from equal timer
\* and history lists the same call gives equal lists again. addTimer,
\* updateTimer, deleteTimer, the tick, the load and resetWeek's history record
\* are the same code in both; toggleTimer, deductTime and resetWeek's reset
\* are compared here.
C39_SameAsLocalProvider ==
    [][/\ \A id \in IssuedIds :
             /\ toggleTimer(id, TRUE) => timers' = toggleTimerLocal(timers, id, now)
             /\ \A seconds \in DeductInputs :
                   deductTime(id, seconds, TRUE)
                   => timers' = deductTimeLocal(timers, id, seconds)
       /\ resetWeek(TRUE, IdsOf(rendered)) => timers' = resetWeekLocal(timers)
      ]_vars

====
